---- MODULE Spec2Model ----
(***************************************************************************)
(* Hook dispatch and payload-mutation engine of mellea.plugins.            *)
(*                                                                         *)
(* State: the module-level singleton of manager.py (_plugin_manager,       *)
(* _plugins_enabled, _session_tags), the plugin registry held by the       *)
(* manager, the _scope_id of every scope handle, and the outcome of the    *)
(* most recent API call as its caller observes it.                         *)
(***************************************************************************)
EXTENDS Integers, Sequences, FiniteSets, TLC

VARIABLES
    plugin_manager,   \* manager._plugin_manager: "None" or "PM"
    plugins_enabled,  \* manager._plugins_enabled
    registry,         \* _plugin_manager._registry: plugin records, registration order
    session_tags,     \* manager._session_tags: scope id -> set of plugin names
    scope_of,         \* handle -> handle._scope_id ("None" when closed)
    inside,           \* handles whose with-block the caller is inside
    reinits,          \* calls of initialize_plugins() since the last shutdown
    last              \* what the caller observed of the most recent call

vars == <<plugin_manager, plugins_enabled, registry, session_tags, scope_of, inside,
         reinits, last>>

(***************************************************************************)
(* Bounds                                                                  *)
(***************************************************************************)
\* how many plugins the registry may hold at once
MaxRegistered == 3
\* how many uuid4 scope ids can be live at once
NumUuids == 2
\* how many times initialize_plugins() replaces the manager between shutdowns
MaxReinit == 1

None == "None"

(***************************************************************************)
(* types.py: hook types and execution modes                                *)
(***************************************************************************)
SESSION_PRE_INIT == "session_pre_init"
SESSION_POST_INIT == "session_post_init"
HookTypes == {SESSION_PRE_INIT, SESSION_POST_INIT}
COMPONENT_POST_ERROR == "component_post_error"
COMPONENT_PRE_CREATE == "component_pre_create"
COMPONENT_POST_CREATE == "component_post_create"
COMPONENT_PRE_EXECUTE == "component_pre_execute"
COMPONENT_POST_SUCCESS == "component_post_success"
GENERATION_PRE_CALL == "generation_pre_call"
GENERATION_POST_CALL == "generation_post_call"

ENFORCE == "enforce"
PERMISSIVE == "permissive"
FIRE_AND_FORGET == "fire_and_forget"

(***************************************************************************)
(* policies.py: the per-hook writable fields.  session_post_init has no    *)
(* entry.                                                                  *)
(***************************************************************************)
MELLEA_HOOK_PAYLOAD_POLICIES ==
    [h \in {SESSION_PRE_INIT, COMPONENT_PRE_CREATE, COMPONENT_POST_CREATE,
            COMPONENT_PRE_EXECUTE, COMPONENT_POST_SUCCESS,
            GENERATION_PRE_CALL, GENERATION_POST_CALL} |->
        CASE h = SESSION_PRE_INIT ->
                {"backend_name", "model_id", "model_options", "backend_kwargs"}
          [] h = COMPONENT_PRE_CREATE ->
                {"description", "images", "requirements", "icl_examples",
                 "grounding_context", "user_variables", "prefix", "template_id"}
          [] h = COMPONENT_POST_CREATE -> {"component"}
          [] h = COMPONENT_PRE_EXECUTE ->
                {"action", "context", "context_view", "requirements",
                 "model_options", "format", "strategy", "tool_calls_enabled"}
          [] h = COMPONENT_POST_SUCCESS -> {"result"}
          [] h = GENERATION_PRE_CALL -> {"model_options", "tools", "format"}
          [] OTHER -> {"model_output"}]

(***************************************************************************)
(* base.py / hooks/session.py: payload classes.  A payload object is a     *)
(* function from its field names to values; "oid" stands for the identity  *)
(* of the Python object ("caller" for the object the caller built).        *)
(***************************************************************************)
BaseFields == {"session_id", "request_id", "hook"}

PayloadFields(hook_type) ==
    IF hook_type = SESSION_PRE_INIT
    THEN BaseFields \cup {"backend_name", "model_id", "context_type"}
    ELSE IF hook_type = COMPONENT_POST_ERROR
    THEN BaseFields \cup {"component_type", "error_type"}
    ELSE IF hook_type = COMPONENT_PRE_CREATE
    THEN BaseFields \cup {"component_type", "description"}
    ELSE IF hook_type = COMPONENT_POST_CREATE
    THEN BaseFields \cup {"component_type", "component"}
    ELSE IF hook_type = COMPONENT_PRE_EXECUTE
    THEN BaseFields \cup {"component_type", "action", "model_options", "format", "strategy"}
    ELSE IF hook_type = COMPONENT_POST_SUCCESS
    THEN BaseFields \cup {"component_type", "action", "result"}
    ELSE IF hook_type = GENERATION_PRE_CALL
    THEN BaseFields \cup {"action", "model_options", "format", "tools"}
    ELSE IF hook_type = GENERATION_POST_CALL
    THEN BaseFields \cup {"model_output", "latency_ms"}
    ELSE BaseFields \cup {"session"}

\* SessionPreInitPayload(...) / SessionPostInitPayload(...) /
\* ComponentPostErrorPayload(...) as a caller builds them
NewPayload(hook_type, request_id) ==
    [f \in PayloadFields(hook_type) \cup {"oid"} |->
        CASE f = "oid" -> "caller"
          [] f = "session_id" -> "sid-orig"
          [] f = "request_id" -> request_id
          [] f = "hook" -> ""
          [] f = "backend_name" -> "original-backend"
          [] f = "model_id" -> "original-model"
          [] f = "context_type" -> "SimpleContext"
          [] f = "component_type" -> "Instruction"
          [] f = "error_type" -> "BackendError"
          [] OTHER -> "live-session"]

\* the fields typed Any that hold a live object; their value stands for
\* the identity of that object
ReferenceFields == {"session"}

\* what copy.deepcopy would give for a field value: an equal but distinct
\* object for a live reference
deepcopy(f, v) == IF f \in ReferenceFields THEN "copy-of-" \o v ELSE v

model_copy_deep(payload, update) ==
    [f \in DOMAIN payload |->
        IF f = "oid" THEN "copy"
        ELSE IF f \in DOMAIN update THEN update[f] ELSE deepcopy(f, payload[f])]

\* payload.model_copy(update=...): a new object, named fields replaced
model_copy(payload, update) ==
    [f \in DOMAIN payload |->
        IF f = "oid" THEN "copy"
        ELSE IF f \in DOMAIN update THEN update[f] ELSE payload[f]]


(***************************************************************************)
(* Scope / session identifiers.  NoId stands for Python's None.            *)
(***************************************************************************)
NoId == "None"
SessionIds == {"s1"}
Uuid(i) == "uuid-" \o ToString(i)
Uuids == {Uuid(i) : i \in 1..NumUuids}
ScopeIds == SessionIds \cup Uuids

\* a payload of the component and generation hooks as its call site builds
\* it: the keyword arguments given, the class defaults for the base fields
PayloadOf(hook_type, kwargs) ==
    [f \in PayloadFields(hook_type) \cup {"oid"} |->
        IF f \in DOMAIN kwargs THEN kwargs[f]
        ELSE CASE f = "oid" -> "caller"
               [] f = "session_id" -> NoId
               [] OTHER -> ""]

(***************************************************************************)
(* The registrable items of the program under analysis: @hook functions,   *)
(* @plugin class instances with @hook methods, PluginSets, and one object  *)
(* of unrecognised shape.                                                  *)
(***************************************************************************)
Functions == {"hook_a", "hook_b", "hook_c", "hook_d", "hook_e", "hook_f",
              "hook_g", "hook_x", "hook_err", "hook_r",
              "gen_block", "gen_opts", "gen_out", "succ_block", "exec_block"}
Bundles == {"P1", "P2", "P3", "P4"}
PluginSets == {"set_a", "set_b", "set_c", "set_d"}
Junk == {"junk"}
Items == Functions \cup Bundles \cup PluginSets \cup Junk
\* the objects the program uses as context managers
Handles == {"set_a", "P2"}

\* decorators.hook: fn._mellea_hook_meta = HookMeta(hook_type, mode, priority)
hook(hook_type, mode, priority) ==
    [hook_type |-> hook_type, mode |-> mode, priority |-> priority]

\* the _mellea_hook_meta of each standalone function
FunctionMeta(fn) ==
    CASE fn = "hook_a" -> hook(SESSION_PRE_INIT, ENFORCE, 30)
      [] fn = "hook_b" -> hook(SESSION_PRE_INIT, PERMISSIVE, 10)
      [] fn = "hook_c" -> hook(SESSION_PRE_INIT, ENFORCE, 20)
      [] fn = "hook_e" -> hook(SESSION_PRE_INIT, FIRE_AND_FORGET, 40)
      [] fn = "hook_f" -> hook(SESSION_POST_INIT, ENFORCE, 60)
      [] fn = "hook_g" -> hook(SESSION_PRE_INIT, PERMISSIVE, 35)
      [] fn = "hook_x" -> hook(SESSION_PRE_INIT, ENFORCE, 32)
      [] fn = "hook_err" -> hook(COMPONENT_POST_ERROR, ENFORCE, 10)
      [] fn = "hook_r" -> hook(SESSION_POST_INIT, ENFORCE, 10)
      [] fn = "gen_block" -> hook(GENERATION_PRE_CALL, ENFORCE, 20)
      [] fn = "gen_opts" -> hook(GENERATION_PRE_CALL, ENFORCE, 10)
      [] fn = "gen_out" -> hook(GENERATION_POST_CALL, ENFORCE, 10)
      [] fn = "succ_block" -> hook(COMPONENT_POST_SUCCESS, ENFORCE, 60)
      [] fn = "exec_block" -> hook(COMPONENT_PRE_EXECUTE, ENFORCE, 60)
      [] OTHER -> hook(SESSION_PRE_INIT, FIRE_AND_FORGET, 50)

\* decorators.plugin(name, *, priority=50):
\* cls._mellea_plugin_meta = PluginMeta(name, priority).  The priority
\* argument is optional: <<>> when the decoration gives none
PluginDefaultPriority == 50

plugin(name, priority) ==
    [name |-> name,
     priority |-> IF priority = <<>> THEN PluginDefaultPriority ELSE priority[1]]

\* the priority argument of each bundle's @plugin decoration
PluginPriorityArg(inst) == IF inst = "P1" THEN <<5>> ELSE <<>>

PluginMetaOf(inst) == plugin(inst, PluginPriorityArg(inst))

\* the public @hook-tagged methods of each bundle instance, in dir() order
BundleMethods(inst) ==
    IF inst = "P1" THEN <<"on_pre_init">>
    ELSE IF inst = "P3" THEN <<"audit", "guard">>
    ELSE IF inst = "P4"
    THEN <<"on_generation_post", "on_generation_pre", "on_post_create",
           "on_post_error", "on_post_success", "on_pre_create", "on_pre_execute">>
    ELSE <<"on_post_init", "on_pre_init">>

MethodMeta(inst, m) ==
    IF inst = "P1" THEN hook(SESSION_PRE_INIT, PERMISSIVE, 80)
    ELSE IF inst = "P3" THEN hook(SESSION_PRE_INIT, ENFORCE, 50)
    ELSE IF inst = "P4"
    THEN hook(CASE m = "on_generation_post" -> GENERATION_POST_CALL
                [] m = "on_generation_pre" -> GENERATION_PRE_CALL
                [] m = "on_post_create" -> COMPONENT_POST_CREATE
                [] m = "on_post_error" -> COMPONENT_POST_ERROR
                [] m = "on_post_success" -> COMPONENT_POST_SUCCESS
                [] m = "on_pre_create" -> COMPONENT_PRE_CREATE
                [] OTHER -> COMPONENT_PRE_EXECUTE,
              ENFORCE, 50)
    ELSE IF m = "on_pre_init" THEN hook(SESSION_PRE_INIT, ENFORCE, 20)
    ELSE hook(SESSION_POST_INIT, ENFORCE, 50)

\* PluginSet(name, items, priority=...)
SetItems(ps) ==
    CASE ps = "set_a" -> <<"hook_a">>
      [] ps = "set_b" -> <<"hook_d">>
      [] ps = "set_c" -> <<"set_b", "hook_a">>
      [] OTHER -> <<"set_a", "hook_d">>
\* an optional int: <<>> is None, <<n>> is n
SetPriority(ps) ==
    CASE ps = "set_a" -> <<>>
      [] ps = "set_b" -> <<25>>
      [] ps = "set_c" -> <<70>>
      [] OTHER -> <<15>>

(***************************************************************************)
(* What a handler returns for the payload it receives.                     *)
(*   kind "none"     : return None                                         *)
(*   kind "continue" : PluginResult(continue_processing=True)              *)
(*   kind "modify"   : PluginResult(continue_processing=True,              *)
(*                       modified_payload=payload.model_copy(update=...))  *)
(*   kind "block"    : registry.block(reason, code=code)                   *)
(*   kind "raise"    : the handler raises an exception (raised names it)   *)
(***************************************************************************)
PluginResult(continue_processing, has_payload, modified_payload, has_violation, reason, code) ==
    [is_none |-> FALSE,
     continue_processing |-> continue_processing,
     has_payload |-> has_payload,
     modified_payload |-> modified_payload,
     has_violation |-> has_violation,
     reason |-> reason,
     code |-> code,
     plugin_name |-> "",
     raised |-> ""]

\* PluginResult(continue_processing=True)
Continue(payload) == PluginResult(TRUE, FALSE, payload, FALSE, "", "")

\* raise exc: no result at all
Raise(payload, exc) ==
    [PluginResult(TRUE, FALSE, payload, FALSE, "", "") EXCEPT !.raised = exc]

ReturnNone(payload) ==
    [PluginResult(TRUE, FALSE, payload, FALSE, "", "") EXCEPT !.is_none = TRUE]

\* registry.block
block(payload, reason, code) ==
    PluginResult(FALSE, FALSE, payload, TRUE, reason, code)

Modify(payload, update) ==
    PluginResult(TRUE, TRUE, model_copy(payload, update), FALSE, "", "")

\* the body of each standalone function
FunctionBody(fn, payload) ==
    CASE fn = "hook_a" -> Modify(payload, [f \in {"model_id"} |-> "by_a"])
      [] fn = "hook_b" -> block(payload, "Soft block", "SOFT_001")
      [] fn = "hook_c" -> block(payload, "Access denied", "AUTH_001")
      [] fn = "hook_e" -> block(payload, "Async block", "FAF_001")
      [] fn = "hook_f" -> ReturnNone(payload)
      [] fn = "hook_g" -> Continue(payload)
      [] fn = "hook_x" -> Raise(payload, "RuntimeError")
      [] fn = "hook_err" -> block(payload, "Error hook block", "ERR_001")
      [] fn = "hook_r" -> Modify(payload, [f \in {"request_id"} |-> "injected-rid"])
      [] fn = "gen_block" -> block(payload, "Generation denied", "GEN_001")
      [] fn = "gen_opts" ->
            Modify(payload, [f \in {"model_options", "format"} |->
                                IF f = "format" THEN "format-by-plugin"
                                ELSE "options-by-plugin"])
      [] fn = "gen_out" -> Modify(payload, [f \in {"model_output"} |-> "output-by-plugin"])
      [] fn = "succ_block" -> block(payload, "Result rejected", "RES_001")
      [] fn = "exec_block" -> block(payload, "Execution denied", "EXEC_001")
      [] OTHER ->
            Modify(payload,
                   [f \in {"model_id", "backend_name", "session_id", "request_id",
                           "hook", "context_type"} |->
                        IF f = "model_id" THEN "by_d"
                        ELSE IF f = "backend_name" THEN "backend_d"
                        ELSE "tampered"])

\* the body of each bundle method
MethodBody(inst, m, payload) ==
    IF inst = "P1" THEN block(payload, "Bundle block", "BUNDLE_001")
    ELSE IF inst = "P3"
    THEN IF m = "audit" THEN Modify(payload, [f \in {"model_id"} |-> "by_audit"])
         ELSE ReturnNone(payload)
    ELSE IF inst = "P4" THEN ReturnNone(payload)
    ELSE IF m = "on_pre_init" THEN ReturnNone(payload)
    ELSE Modify(payload, [f \in {"session", "hook"} |-> "tampered"])


(***************************************************************************)
(* pluginset.py: PluginSet.flatten                                         *)
(***************************************************************************)
RECURSIVE flattenFrom(_, _)
flattenFrom(ps, i) ==
    IF i > Len(SetItems(ps)) THEN <<>>
    ELSE LET item == SetItems(ps)[i]
         IN  (IF item \in PluginSets
              THEN flattenFrom(item, 1)
              ELSE << <<item, SetPriority(ps)>> >>) \o flattenFrom(ps, i + 1)

flatten_unprioritised(ps) ==
    [i \in 1..Len(flattenFrom(ps, 1)) |-> <<flattenFrom(ps, 1)[i][1], <<>> >>]

flatten(ps) == flattenFrom(ps, 1)

(***************************************************************************)
(* registry.py: adapters.  A plugin record is what the framework keeps of  *)
(* a registered Plugin: its config (name, hooks, mode, priority) and what  *)
(* the adapter holds (item, session_id).  override keeps the               *)
(* priority_override argument the adapter was built with.                  *)
(***************************************************************************)
_map_mode_as_permissive(mode) ==
    CASE mode = ENFORCE -> PERMISSIVE
      [] mode = PERMISSIVE -> PERMISSIVE
      [] mode = FIRE_AND_FORGET -> ENFORCE
      [] OTHER -> ENFORCE

_map_mode(mode) ==
    CASE mode = ENFORCE -> ENFORCE
      [] mode = PERMISSIVE -> PERMISSIVE
      [] mode = FIRE_AND_FORGET -> ENFORCE
      [] OTHER -> ENFORCE

PriorityOrOverride_declared(priority_override, declared) == declared

\* priority_override if priority_override is not None else <declared>
PriorityOrOverride(priority_override, declared) ==
    IF priority_override # <<>> THEN priority_override[1] ELSE declared

_FunctionHookAdapter_unsubscribed(fn, session_id, priority_override) ==
    LET meta == FunctionMeta(fn)
    IN  [name |-> fn,
         kind |-> "function",
         hooks |-> {},
         mode |-> _map_mode(meta.mode),
         priority |-> PriorityOrOverride(priority_override, meta.priority),
         session_id |-> session_id,
         override |-> priority_override]

_FunctionHookAdapter_declared_mode(fn, session_id, priority_override) ==
    LET meta == FunctionMeta(fn)
    IN  [name |-> fn,
         kind |-> "function",
         hooks |-> {meta.hook_type},
         mode |-> meta.mode,
         priority |-> PriorityOrOverride(priority_override, meta.priority),
         session_id |-> session_id,
         override |-> priority_override]

_FunctionHookAdapter(fn, session_id, priority_override) ==
    LET meta == FunctionMeta(fn)
    IN  [name |-> fn,
         kind |-> "function",
         hooks |-> {meta.hook_type},
         mode |-> _map_mode(meta.mode),
         priority |-> PriorityOrOverride(priority_override, meta.priority),
         session_id |-> session_id,
         override |-> priority_override]

\* hook_methods: dict keyed by hook_type, filled in dir() order
RECURSIVE hook_methods_upto(_, _)
hook_methods_upto(inst, i) ==
    IF i = 0 THEN [h \in {} |-> ""]
    ELSE LET prev == hook_methods_upto(inst, i - 1)
             m == BundleMethods(inst)[i]
             h == MethodMeta(inst, m).hook_type
         IN  [x \in DOMAIN prev \cup {h} |-> IF x = h THEN m ELSE prev[x]]

hook_methods(inst) == hook_methods_upto(inst, Len(BundleMethods(inst)))

_ClassPluginAdapter_method_priority(inst, session_id, priority_override) ==
    [name |-> PluginMetaOf(inst).name,
     kind |-> "class",
     hooks |-> DOMAIN hook_methods(inst),
     mode |-> ENFORCE,
     priority |-> PriorityOrOverride(priority_override,
                     MethodMeta(inst, BundleMethods(inst)[1]).priority),
     session_id |-> session_id,
     override |-> priority_override]

_ClassPluginAdapter(inst, session_id, priority_override) ==
    [name |-> PluginMetaOf(inst).name,
     kind |-> "class",
     hooks |-> DOMAIN hook_methods(inst),
     mode |-> ENFORCE,
     priority |-> PriorityOrOverride(priority_override, PluginMetaOf(inst).priority),
     session_id |-> session_id,
     override |-> priority_override]

(***************************************************************************)
(* The framework's plugin registry (PluginManager._registry).              *)
(***************************************************************************)
RegisteredNames(reg) == {reg[i].name : i \in 1..Len(reg)}

\* a second plugin of the same name is refused
RegistryCanRegister(reg, p) == p.name \notin RegisteredNames(reg)

RegistryRegister(reg, p) == Append(reg, p)

RegistryUnregister(reg, name) == SelectSeq(reg, LAMBDA p : p.name # name)

has_hooks_for(reg, hook_type) == \E i \in 1..Len(reg) : hook_type \in reg[i].hooks

(***************************************************************************)
(* manager.py: _track_session_plugin                                       *)
(***************************************************************************)
_track_session_plugin(tags, session_id, plugin_name) ==
    [tags EXCEPT ![session_id] = @ \cup {plugin_name}]

(***************************************************************************)
(* registry.py: _register_single.  The outcome carries the registry and    *)
(* the scope map as the call left them and the exception, if any.          *)
(***************************************************************************)
Outcome(reg, tags, err) == [registry |-> reg, tags |-> tags, err |-> err]

RegisterAdapter(reg, tags, adapter, session_id) ==
    IF ~RegistryCanRegister(reg, adapter)
    THEN Outcome(reg, tags, "ValueError")
    ELSE Outcome(RegistryRegister(reg, adapter),
                 IF session_id # NoId
                 THEN _track_session_plugin(tags, session_id, adapter.name)
                 ELSE tags,
                 "")

_register_single_any_callable(reg, tags, item, session_id, priority_override) ==
    IF item \in Bundles
    THEN RegisterAdapter(reg, tags,
             _ClassPluginAdapter(item, session_id, priority_override), session_id)
    ELSE RegisterAdapter(reg, tags,
             _FunctionHookAdapter(item, session_id, priority_override), session_id)

_register_single(reg, tags, item, session_id, priority_override) ==
    IF item \in Functions
    THEN RegisterAdapter(reg, tags,
             _FunctionHookAdapter(item, session_id, priority_override), session_id)
    ELSE IF item \in Bundles
    THEN RegisterAdapter(reg, tags,
             _ClassPluginAdapter(item, session_id, priority_override), session_id)
    ELSE Outcome(reg, tags, "TypeError")

\* the (item, priority_override) pairs register() walks for one item
RegisterPairs_outer_priority(item) ==
    IF item \in PluginSets
    THEN [i \in 1..Len(flatten(item)) |-> <<flatten(item)[i][1], SetPriority(item)>>]
    ELSE << <<item, <<>> >> >>

RegisterPairs(item) ==
    IF item \in PluginSets THEN flatten(item) ELSE << <<item, <<>> >> >>

RECURSIVE RegisterFrom(_, _, _, _, _)
RegisterFrom(reg, tags, pairs, i, session_id) ==
    IF i > Len(pairs) THEN Outcome(reg, tags, "")
    ELSE LET one == _register_single(reg, tags, pairs[i][1], session_id, pairs[i][2])
         IN  IF one.err # "" THEN one
             ELSE RegisterFrom(one.registry, one.tags, pairs, i + 1, session_id)

\* registry.register(item, session_id=...) on an initialised manager
register(reg, tags, item, session_id) ==
    RegisterFrom(reg, tags, RegisterPairs(item), 1, session_id)


(***************************************************************************)
(* registry.py: _FunctionHookAdapter._invoke and the _wrapped closure of   *)
(* _ClassPluginAdapter.__getattr__: call the handler, and turn a None      *)
(* return into PluginResult(continue_processing=True,                      *)
(* modified_payload=payload).                                              *)
(***************************************************************************)
NoneToResult_as_block(result, payload) ==
    IF result.is_none
    THEN [result EXCEPT !.continue_processing = FALSE, !.has_violation = TRUE]
    ELSE result

NoneToResult(result, payload) ==
    IF result.is_none
    THEN [result EXCEPT !.has_payload = TRUE, !.modified_payload = payload]
    ELSE result

\* the callable the adapter's __getattr__ hands out for a hook type
Callee(p, hook_type) ==
    IF p.kind = "function" THEN p.name ELSE hook_methods(p.name)[hook_type]

\* an adapter that would catch what the handler raises
_invoke_swallowing(p, hook_type, payload) ==
    LET result == IF p.kind = "function"
                  THEN FunctionBody(p.name, payload)
                  ELSE MethodBody(p.name, hook_methods(p.name)[hook_type], payload)
    IN  IF result.raised # "" THEN Continue(payload) ELSE NoneToResult(result, payload)

_invoke(p, hook_type, payload) ==
    IF p.kind = "function"
    THEN NoneToResult(FunctionBody(p.name, payload), payload)
    ELSE NoneToResult(MethodBody(p.name, hook_methods(p.name)[hook_type], payload),
                      payload)

(***************************************************************************)
(* The framework's executor, as manager.invoke_hook uses it                *)
(* (violations_as_exceptions=False, hook_policies=                         *)
(* MELLEA_HOOK_PAYLOAD_POLICIES, no default_hook_policy given).            *)
(***************************************************************************)
\* stable sort by ascending priority (insertion sort keeps registration order on ties)
RECURSIVE InsertByPriority(_, _)
InsertByPriority(sorted, p) ==
    IF sorted = <<>> THEN <<p>>
    ELSE IF Head(sorted).priority <= p.priority
         THEN <<Head(sorted)>> \o InsertByPriority(Tail(sorted), p)
         ELSE <<p>> \o sorted

RECURSIVE SortByPriority(_)
SortByPriority(refs) ==
    IF refs = <<>> THEN <<>>
    ELSE InsertByPriority(SortByPriority(SubSeq(refs, 1, Len(refs) - 1)), refs[Len(refs)])

HookRefs(reg, hook_type) ==
    SortByPriority(SelectSeq(reg, LAMBDA p : hook_type \in p.hooks))

\* keep of the handler's modified payload only the changes to writable fields
apply_policy(current, modified, writable) ==
    [f \in DOMAIN current |->
        IF f = "oid" THEN "copy"
        ELSE IF f \in writable /\ f \in DOMAIN modified /\ modified[f] # current[f]
             THEN modified[f]
             ELSE current[f]]

PolicyChanges(current, modified, writable) ==
    \E f \in (DOMAIN current \cap DOMAIN modified \cap writable) \ {"oid"} :
        modified[f] # current[f]

\* the executor's loop state
ExecState(payload) ==
    [current |-> payload, has_current |-> FALSE,
     halted |-> FALSE, violation |-> block(payload, "", ""), raised |-> "",
     fired |-> <<>>, seen |-> <<>>, returned |-> <<>>, called |-> <<>>]

\* what the executor does with the result res of one handler
ExecResult(st, p, hook_type, policies, res) ==
    LET accepted ==
            IF ~res.has_payload THEN st
            ELSE IF hook_type \in DOMAIN policies
                 THEN IF PolicyChanges(st.current, res.modified_payload, policies[hook_type])
                      THEN [st EXCEPT !.current = apply_policy(st.current,
                                                    res.modified_payload,
                                                    policies[hook_type]),
                                      !.has_current = TRUE]
                      ELSE st
                 ELSE [st EXCEPT !.current = res.modified_payload, !.has_current = TRUE]
        entered == [st EXCEPT !.fired = Append(@, p),
                              !.seen = Append(@, st.current),
                              !.returned = Append(@, res),
                              !.called = Append(@, <<p.name, Callee(p, hook_type)>>)]
        logged == [accepted EXCEPT !.fired = entered.fired,
                                   !.seen = entered.seen,
                                   !.returned = entered.returned,
                                   !.called = entered.called]
    IN  IF res.raised # ""
        THEN [entered EXCEPT !.halted = TRUE, !.raised = res.raised]
        ELSE IF ~res.continue_processing /\ p.mode = ENFORCE
        THEN [logged EXCEPT !.halted = TRUE,
                            !.violation = [res EXCEPT !.plugin_name = p.name]]
        ELSE logged

ExecStep(st, p, hook_type, policies) ==
    ExecResult(st, p, hook_type, policies, _invoke(p, hook_type, st.current))

RECURSIVE ExecFrom(_, _, _, _, _)
ExecFrom(st, refs, i, hook_type, policies) ==
    IF i > Len(refs) \/ st.halted THEN st
    ELSE ExecFrom(ExecStep(st, refs[i], hook_type, policies), refs, i + 1, hook_type, policies)

Execute(reg, hook_type, payload, policies) ==
    ExecFrom(ExecState(payload), HookRefs(reg, hook_type), 1, hook_type, policies)


(***************************************************************************)
(* base.py: PluginViolationError                                           *)
(***************************************************************************)
PluginViolationError(hook_type, reason, code, plugin_name) ==
    [hook_type |-> hook_type, reason |-> reason, code |-> code,
     plugin_name |-> plugin_name]

NoError == PluginViolationError("", "", "", "")

EmptyPayload == [f \in {} |-> ""]

\* what a caller observes of a call: how it ended, the scope or session id
\* it worked on, for register the item it was given, for invoke_hook the
\* (result, payload) pair or the error plus the handlers and callables it
\* ran, and for aact the exception its body failed with
Observed(op, outcome) ==
    [op |-> op, outcome |-> outcome, scope |-> "None", item |-> "", body_exc |-> "",
     hook_type |-> "", arg |-> EmptyPayload, update |-> EmptyPayload,
     result_is_none |-> TRUE, continue_processing |-> TRUE,
     payload |-> EmptyPayload, error |-> NoError,
     fired |-> <<>>, seen |-> <<>>, returned |-> <<>>, called |-> <<>>,
     trace |-> <<>>, backend_calls |-> <<>>, result |-> ""]

(***************************************************************************)
(* manager.py: invoke_hook                                                 *)
(***************************************************************************)
\* the hook_policies argument the PluginManager is constructed with
hook_policies_unset == [h \in {} |-> {}]

hook_policies == MELLEA_HOOK_PAYLOAD_POLICIES

\* the no-op guards
NoOpGuard_enabled_only(enabled, pm, reg, hook_type) ==
    ~enabled \/ pm = None

NoOpGuard(enabled, pm, reg, hook_type) ==
    \/ ~enabled \/ pm = None
    \/ ~has_hooks_for(reg, hook_type)

Stamp_in_place(payload, hook_type, session_id, request_id) ==
    [f \in DOMAIN payload |->
        IF f = "hook" THEN hook_type
        ELSE IF f = "session_id" /\ session_id # NoId THEN session_id
        ELSE IF f = "request_id" /\ payload["request_id"] = "" THEN request_id
        ELSE payload[f]]

\* dispatch-time fields set with model_copy
Stamp(payload, hook_type, session_id, request_id) ==
    model_copy(payload,
        [f \in {"hook"}
              \cup (IF session_id # NoId THEN {"session_id"} ELSE {})
              \cup (IF payload["request_id"] = "" THEN {"request_id"} ELSE {}) |->
            CASE f = "hook" -> hook_type
              [] f = "session_id" -> session_id
              [] OTHER -> request_id])

RaisedViolation_code_as_reason(hook_type, v) ==
    PluginViolationError(hook_type, v.code, v.code, v.plugin_name)

\* raise PluginViolationError(hook_type=..., reason=v.reason, code=v.code,
\*                            plugin_name=v.plugin_name or "")
RaisedViolation(hook_type, v) ==
    PluginViolationError(hook_type, v.reason, v.code, v.plugin_name)

ModifiedOrStamped_stamped(ex, stamped) == stamped

\* result.modified_payload if result and result.modified_payload else payload
ModifiedOrStamped(ex, stamped) ==
    IF ex.has_current THEN ex.current ELSE stamped

\* what invoke_hook returns or raises once the executor has run (ex) on the
\* stamped payload
invoke_hook_result(hook_type, payload, session_id, stamped, ex) ==
    LET seenAll == [Observed("invoke_hook", "returned") EXCEPT
                       !.hook_type = hook_type, !.arg = payload,
                       !.scope = session_id,
                       !.fired = ex.fired, !.seen = ex.seen,
                       !.returned = ex.returned, !.called = ex.called]
    IN  IF ex.raised # ""
        THEN [seenAll EXCEPT !.outcome = ex.raised]
        ELSE IF ex.halted /\ ex.violation.has_violation
        THEN [seenAll EXCEPT !.outcome = "PluginViolationError",
                             !.error = RaisedViolation(hook_type, ex.violation)]
        ELSE [seenAll EXCEPT !.result_is_none = FALSE,
                             !.continue_processing = ~ex.halted,
                             !.payload = ModifiedOrStamped(ex, stamped)]

invoke_hook(enabled, pm, reg, hook_type, payload, session_id, request_id) ==
    IF NoOpGuard(enabled, pm, reg, hook_type)
    THEN [Observed("invoke_hook", "returned") EXCEPT
             !.hook_type = hook_type, !.arg = payload, !.payload = payload,
             !.scope = session_id]
    ELSE invoke_hook_result(hook_type, payload, session_id,
             Stamp(payload, hook_type, session_id, request_id),
             Execute(reg, hook_type,
                     Stamp(payload, hook_type, session_id, request_id),
                     hook_policies))

(***************************************************************************)
(* manager.py: deregister_session_plugins on an enabled manager            *)
(***************************************************************************)
RECURSIVE UnregisterAll(_, _)
UnregisterAll(reg, names) ==
    IF names = {} THEN reg
    ELSE LET n == CHOOSE x \in names : TRUE
         IN  UnregisterAll(RegistryUnregister(reg, n), names \ {n})

deregister_session_plugins_tags_only(reg, tags, session_id) ==
    Outcome(reg, [tags EXCEPT ![session_id] = {}], "")

deregister_session_plugins(reg, tags, session_id) ==
    Outcome(UnregisterAll(reg, tags[session_id]),
            [tags EXCEPT ![session_id] = {}],
            "")

(***************************************************************************)
(* uuid.uuid4(): an id no live object refers to                            *)
(***************************************************************************)
FreeUuidIndexes ==
    {i \in 1..NumUuids :
        /\ session_tags[Uuid(i)] = {}
        /\ \A h \in Handles : scope_of[h] # Uuid(i)}

uuid4 == Uuid(CHOOSE i \in FreeUuidIndexes : \A j \in FreeUuidIndexes : i <= j)

(***************************************************************************)
(* Initial state: the module as imported                                   *)
(***************************************************************************)
Init ==
    /\ plugin_manager = None
    /\ plugins_enabled = FALSE
    /\ registry = <<>>
    /\ session_tags = [s \in ScopeIds |-> {}]
    /\ scope_of = [h \in Handles |-> NoId]
    /\ inside = {}
    /\ reinits = 0
    /\ last = Observed("import", "returned")

(***************************************************************************)
(* Actions                                                                 *)
(***************************************************************************)
\* registry.register(item, session_id=session_id); _ensure_plugin_manager()
\* creates the manager on first use
Register(item, session_id) ==
    LET out == register(registry, session_tags, item, session_id)
    IN  /\ Len(out.registry) <= MaxRegistered
        /\ plugin_manager' = "PM"
        /\ plugins_enabled' = TRUE
        /\ registry' = out.registry
        /\ session_tags' = out.tags
        /\ last' = [Observed("register", IF out.err = "" THEN "returned" ELSE out.err)
                      EXCEPT !.item = item]
        /\ UNCHANGED <<scope_of, inside, reinits>>

Enter_unguarded(h) ==
    /\ FreeUuidIndexes # {}
    /\ LET scope_id == uuid4
           out == register(registry, session_tags, h, scope_id)
       IN  /\ Len(out.registry) <= MaxRegistered
           /\ scope_of' = [scope_of EXCEPT ![h] = scope_id]
           /\ plugin_manager' = "PM"
           /\ plugins_enabled' = TRUE
           /\ registry' = out.registry
           /\ session_tags' = out.tags
           /\ inside' = IF out.err = "" THEN inside \cup {h} ELSE inside
           /\ last' = [Observed("enter", IF out.err = "" THEN "returned" ELSE out.err)
                         EXCEPT !.scope = scope_id]
           /\ UNCHANGED reinits

\* handle.__enter__() (PluginSet.__enter__, _plugin_cm_enter)
Enter(h) ==
    IF scope_of[h] # NoId
    THEN /\ last' = [Observed("enter", "RuntimeError") EXCEPT !.scope = scope_of[h]]
         /\ UNCHANGED <<plugin_manager, plugins_enabled, registry, session_tags,
                        scope_of, inside, reinits>>
    ELSE /\ FreeUuidIndexes # {}
         /\ LET scope_id == uuid4
                out == register(registry, session_tags, h, scope_id)
            IN  /\ Len(out.registry) <= MaxRegistered
                /\ scope_of' = [scope_of EXCEPT ![h] = scope_id]
                /\ plugin_manager' = "PM"
                /\ plugins_enabled' = TRUE
                /\ registry' = out.registry
                /\ session_tags' = out.tags
                /\ inside' = IF out.err = "" THEN inside \cup {h} ELSE inside
                /\ last' = [Observed("enter", IF out.err = "" THEN "returned" ELSE out.err)
                              EXCEPT !.scope = scope_id]
                /\ UNCHANGED reinits

\* manager.deregister_session_plugins(session_id)
DeregisterCall(session_id) ==
    IF ~plugins_enabled \/ plugin_manager = None
    THEN Outcome(registry, session_tags, "")
    ELSE deregister_session_plugins(registry, session_tags, session_id)

\* a deregistration that would go through _ensure_plugin_manager()
Deregister_ensuring_manager(session_id) ==
    LET out == DeregisterCall(session_id)
    IN  /\ registry' = out.registry
        /\ session_tags' = out.tags
        /\ plugin_manager' = "PM"
        /\ plugins_enabled' = TRUE
        /\ last' = [Observed("deregister_session_plugins", "returned")
                      EXCEPT !.scope = session_id]
        /\ UNCHANGED <<scope_of, inside, reinits>>

Deregister(session_id) ==
    LET out == DeregisterCall(session_id)
    IN  /\ registry' = out.registry
        /\ session_tags' = out.tags
        /\ last' = [Observed("deregister_session_plugins", "returned")
                      EXCEPT !.scope = session_id]
        /\ UNCHANGED <<plugin_manager, plugins_enabled, scope_of, inside, reinits>>

\* the exception, if any, that leaves the body of a with-block
BodyOutcomes == {"returned", "ValueError"}

\* an exit that would clear the handle's scope id and deregister nothing
Exit_without_deregistering(h, exc_type) ==
    /\ scope_of' = [scope_of EXCEPT ![h] = NoId]
    /\ inside' = inside \ {h}
    /\ last' = [Observed("exit", exc_type) EXCEPT !.scope = scope_of[h]]
    /\ UNCHANGED <<plugin_manager, plugins_enabled, registry, session_tags, reinits>>

\* handle.__exit__(exc_type, exc_val, exc_tb) (PluginSet.__exit__,
\* _plugin_cm_exit): returns None, so an exception of the body propagates
Exit(h, exc_type) ==
    /\ IF scope_of[h] # NoId
       THEN LET out == DeregisterCall(scope_of[h])
            IN  /\ registry' = out.registry
                /\ session_tags' = out.tags
                /\ scope_of' = [scope_of EXCEPT ![h] = NoId]
       ELSE UNCHANGED <<registry, session_tags, scope_of>>
    /\ inside' = inside \ {h}
    /\ last' = [Observed("exit", exc_type) EXCEPT !.scope = scope_of[h]]
    /\ UNCHANGED <<plugin_manager, plugins_enabled, reinits>>

Shutdown_keeps_session_tags ==
    /\ reinits' = 0
    /\ plugin_manager' = None
    /\ plugins_enabled' = FALSE
    /\ registry' = <<>>
    /\ last' = Observed("shutdown_plugins", "returned")
    /\ UNCHANGED <<session_tags, scope_of, inside>>

\* manager.shutdown_plugins()
Shutdown ==
    /\ reinits' = 0
    /\ plugin_manager' = None
    /\ plugins_enabled' = FALSE
    /\ registry' = <<>>
    /\ session_tags' = [s \in ScopeIds |-> {}]
    /\ last' = Observed("shutdown_plugins", "returned")
    /\ UNCHANGED <<scope_of, inside>>

\* manager.initialize_plugins(): a fresh PluginManager replaces the old one
Initialize ==
    /\ reinits < MaxReinit
    /\ reinits' = reinits + 1
    /\ plugin_manager' = "PM"
    /\ plugins_enabled' = TRUE
    /\ registry' = <<>>
    /\ last' = Observed("initialize_plugins", "returned")
    /\ UNCHANGED <<session_tags, scope_of, inside>>

\* manager.invoke_hook(hook_type, payload, session_id=session_id,
\*                     request_id="req-arg")
DispatchIn(hook_type, payload, session_id) ==
    /\ last' = invoke_hook(plugins_enabled, plugin_manager, registry,
                           hook_type, payload, session_id, "req-arg")
    /\ UNCHANGED <<plugin_manager, plugins_enabled, registry, session_tags,
                   scope_of, inside, reinits>>

\* manager.invoke_hook(hook_type, payload, request_id="req-arg")
Dispatch(hook_type, payload) == DispatchIn(hook_type, payload, NoId)

\* the payloads a caller passes: request_id set or not, hook left empty or
\* already filled in
CallerPayloads(hook_type) ==
    {NewPayload(hook_type, rid) : rid \in {"", "rid-orig"}}
        \cup {[NewPayload(hook_type, "") EXCEPT !["hook"] = "caller-hook"]}

(***************************************************************************)
(* Spec: the whole life cycle (registration globally and per session,      *)
(* scope handles, deregistration, shutdown, re-initialisation, dispatch)   *)
(* of a program whose handlers do not block.                               *)
(***************************************************************************)
LifecycleItems == {"hook_a", "hook_d", "P2", "set_a"}

Next ==
    \/ \E item \in LifecycleItems, sid \in SessionIds \cup {NoId} : Register(item, sid)
    \/ \E h \in Handles : Enter(h)
    \/ \E h \in Handles, exc_type \in BodyOutcomes : Exit(h, exc_type)
    \/ \E sid \in SessionIds : Deregister(sid)
    \/ Shutdown
    \/ Initialize
    \/ \E hook_type \in HookTypes : Dispatch(hook_type, NewPayload(hook_type, ""))

Spec == Init /\ [][Next]_vars

(***************************************************************************)
(* stdlib/functional.py: aact, when the execution of the action fails.     *)
(* The except clause dispatches component_post_error if has_plugins() and  *)
(* then re-raises.  violations_as_exceptions=False is no parameter of      *)
(* invoke_hook: it lands in **context_fields and goes to                   *)
(* build_global_context.  The hooks aact dispatches before the failure     *)
(* have no subscriber in this catalogue.                                   *)
(***************************************************************************)
AactErrors == {"BackendError"}

\* ComponentPostErrorPayload(component_type=..., error_type=type(exc).__name__, ...)
ErrorPayload(exc) ==
    [NewPayload(COMPONENT_POST_ERROR, "") EXCEPT !["error_type"] = exc]

\* what the caller of aact observes: the exception of the body, or the one
\* the dispatch raised
AactObserved(exc, res) ==
    IF ~plugins_enabled
    THEN [Observed("aact", exc) EXCEPT !.body_exc = exc]
    ELSE [res EXCEPT !.op = "aact",
                     !.body_exc = exc,
                     !.outcome = IF res.outcome = "returned"
                                 THEN exc ELSE res.outcome]

AactFails(exc) ==
    /\ last' = AactObserved(exc,
                    invoke_hook(plugins_enabled, plugin_manager, registry,
                                COMPONENT_POST_ERROR, ErrorPayload(exc), NoId, ""))
    /\ UNCHANGED <<plugin_manager, plugins_enabled, registry, session_tags,
                   scope_of, inside, reinits>>

(***************************************************************************)
(* SpecChain: handler chains.  Every item is registered globally, in any   *)
(* order, and every hook type is dispatched with every caller payload.     *)
(***************************************************************************)
ChainItems ==
    {"hook_a", "hook_b", "hook_c", "hook_d", "hook_e", "hook_f", "P1", "P2"}
        \cup PluginSets \cup Junk

NextChain ==
    \/ \E item \in ChainItems : Register(item, NoId)
    \/ Shutdown
    \/ \E hook_type \in HookTypes : \E payload \in CallerPayloads(hook_type) :
          Dispatch(hook_type, payload)

SpecChain == Init /\ [][NextChain]_vars

(***************************************************************************)
(* SpecEdge: handlers that return nothing, raise, share a bundle and a     *)
(* hook type, or are registered for a session; dispatches made for a       *)
(* session, and the failure path of aact.                                  *)
(***************************************************************************)
EdgeItems == {"hook_a", "hook_g", "hook_x", "P3", "hook_err", "hook_r"}
\* the items the program registers with session_id=...
SessionItems == {"hook_a"}
\* the session ids dispatches are made for
DispatchSessions == {"s1", "s2"}

NextEdge ==
    \/ \E item \in EdgeItems : Register(item, NoId)
    \/ \E item \in SessionItems, sid \in SessionIds : Register(item, sid)
    \/ Shutdown
    \/ \E sid \in DispatchSessions \cup {NoId} :
          DispatchIn(SESSION_PRE_INIT, NewPayload(SESSION_PRE_INIT, ""), sid)
    \/ \E exc \in AactErrors : AactFails(exc)
    \/ \E payload \in CallerPayloads(SESSION_POST_INIT) :
          Dispatch(SESSION_POST_INIT, payload)

SpecEdge == Init /\ [][NextEdge]_vars

(***************************************************************************)
(* The call sites of the component and generation hooks: ainstruct, aact   *)
(* (functional.py) and Backend.generate_from_context_with_hooks            *)
(* (backend.py), called with strategy=None.  A run records the dispatches  *)
(* made in order (trace), the calls of the backend's generate_from_context *)
(* (backend_calls), how the call ended (outcome) and what it returned      *)
(* (result).  The backend either returns BackendOutput or raises.          *)
(***************************************************************************)
BackendOutput == "output-of-backend"

\* v or {}
OrEmptyDict(v) == IF v = "None" THEN "{}" ELSE v

Run(trace, backend_calls, outcome, result) ==
    [trace |-> trace, backend_calls |-> backend_calls,
     outcome |-> outcome, result |-> result]

\* await invoke_hook(hook_type, Payload(**kwargs), backend=..., context=...)
CallSite(hook_type, kwargs) ==
    invoke_hook(plugins_enabled, plugin_manager, registry,
                hook_type, PayloadOf(hook_type, kwargs), NoId, "")

\* the dispatches recorded so far: none is made while has_plugins() is false
Dispatches(trace) == IF plugins_enabled THEN trace ELSE <<>>

\* out_result, new_ctx = await self.generate_from_context(...), then the
\* generation_post_call dispatch, whose returned payload is not read
generate_after_post(pre_trace, call, post) ==
    Run(Dispatches(Append(pre_trace, post)), <<call>>, post.outcome,
        IF post.outcome = "returned" THEN BackendOutput ELSE "")

generate_call(pre_trace, call, backend_exc) ==
    IF backend_exc # ""
    THEN Run(pre_trace, <<call>>, backend_exc, "")
    ELSE generate_after_post(pre_trace, call,
             CallSite(GENERATION_POST_CALL,
                      [f \in {"model_output", "latency_ms"} |->
                          IF f = "model_output" THEN BackendOutput ELSE "ms"]))

\* a backend that is called with the arguments of the caller, whatever the
\* dispatch returned
generate_after_pre_caller_arguments(format, model_options, backend_exc, pre) ==
    IF pre.outcome # "returned"
    THEN Run(<<pre>>, <<>>, pre.outcome, "")
    ELSE generate_call(Dispatches(<<pre>>),
                       [model_options |-> model_options, format |-> format],
                       backend_exc)

\* model_options = pre_payload.model_options; format = pre_payload.format
generate_after_pre(format, model_options, backend_exc, pre) ==
    IF pre.outcome # "returned"
    THEN Run(<<pre>>, <<>>, pre.outcome, "")
    ELSE generate_call(Dispatches(<<pre>>),
                       [model_options |-> IF plugins_enabled
                                          THEN pre.payload["model_options"]
                                          ELSE model_options,
                        format |-> IF plugins_enabled
                                   THEN pre.payload["format"]
                                   ELSE format],
                       backend_exc)

generate_from_context_with_hooks(action, format, model_options, backend_exc) ==
    generate_after_pre(format, model_options, backend_exc,
        CallSite(GENERATION_PRE_CALL,
                 [f \in {"action", "model_options", "format", "tools"} |->
                     CASE f = "action" -> action
                       [] f = "model_options" -> OrEmptyDict(model_options)
                       [] f = "format" -> format
                       [] OTHER -> "None"]))

\* the except clause of aact: dispatch component_post_error, then re-raise
aact_reraise(exc, sofar, err) ==
    Run(Dispatches(Append(sofar.trace, err)), sofar.backend_calls,
        IF err.outcome # "returned" THEN err.outcome ELSE exc, "")

aact_except(exc, sofar) ==
    aact_reraise(exc, sofar,
        CallSite(COMPONENT_POST_ERROR,
                 [f \in {"component_type", "error_type"} |->
                     IF f = "error_type" THEN exc ELSE "Instruction"]))

\* the component_post_success dispatch, made inside the try block
aact_after_success(trace, gen, success) ==
    IF success.outcome # "returned"
    THEN aact_except(success.outcome,
                     Run(Append(trace, success), gen.backend_calls, success.outcome, ""))
    ELSE Run(Dispatches(Append(trace, success)), gen.backend_calls, "returned",
             IF success.payload["result"] \notin {"None", gen.result}
             THEN success.payload["result"]
             ELSE gen.result)

\* a try block that returns without dispatching component_post_success
aact_body_without_success(pre_trace, action, gen) ==
    IF gen.outcome # "returned"
    THEN aact_except(gen.outcome,
                     Run(pre_trace \o gen.trace, gen.backend_calls, gen.outcome, ""))
    ELSE Run(pre_trace \o gen.trace, gen.backend_calls, "returned", gen.result)

\* the try block of aact with strategy None
aact_body(pre_trace, action, gen) ==
    IF gen.outcome # "returned"
    THEN aact_except(gen.outcome,
                     Run(pre_trace \o gen.trace, gen.backend_calls, gen.outcome, ""))
    ELSE aact_after_success(pre_trace \o gen.trace, gen,
             CallSite(COMPONENT_POST_SUCCESS,
                      [f \in {"component_type", "action", "result"} |->
                          CASE f = "component_type" -> "Instruction"
                            [] f = "action" -> action
                            [] OTHER -> gen.result]))

\* the locals of aact are taken from the payload the dispatch returned
aact_after_pre(action, format, model_options, backend_exc, pre) ==
    IF pre.outcome # "returned"
    THEN Run(<<pre>>, <<>>, pre.outcome, "")
    ELSE aact_body(Dispatches(<<pre>>), pre.payload["action"],
             generate_from_context_with_hooks(
                 pre.payload["action"],
                 pre.payload["format"],
                 IF plugins_enabled /\ pre.payload["model_options"] \notin {"{}", "None"}
                 THEN pre.payload["model_options"]
                 ELSE model_options,
                 backend_exc))

aact(action, format, model_options, backend_exc) ==
    aact_after_pre(action, format, model_options, backend_exc,
        CallSite(COMPONENT_PRE_EXECUTE,
                 [f \in {"component_type", "action", "model_options",
                         "format", "strategy"} |->
                     CASE f = "component_type" -> "Instruction"
                       [] f = "action" -> action
                       [] f = "model_options" -> OrEmptyDict(model_options)
                       [] f = "format" -> format
                       [] OTHER -> "None"]))

\* the Instruction object built from a description
Instruction(description) == "Instruction:" \o description

ainstruct_run(trace, run) ==
    Run(trace \o run.trace, run.backend_calls, run.outcome, run.result)

\* if post_payload.component is not None and post_payload.component is not i
ainstruct_after_post(i, format, model_options, backend_exc, pre, post) ==
    IF post.outcome # "returned"
    THEN Run(<<pre, post>>, <<>>, post.outcome, "")
    ELSE ainstruct_run(Dispatches(<<pre, post>>),
             aact(IF post.payload["component"] \notin {"None", i}
                  THEN post.payload["component"]
                  ELSE i,
                  format, model_options, backend_exc))

ainstruct_create(i, format, model_options, backend_exc, pre) ==
    ainstruct_after_post(i, format, model_options, backend_exc, pre,
        CallSite(COMPONENT_POST_CREATE,
                 [f \in {"component_type", "component"} |->
                     IF f = "component" THEN i ELSE "Instruction"]))

ainstruct_after_pre(format, model_options, backend_exc, pre) ==
    IF pre.outcome # "returned"
    THEN Run(<<pre>>, <<>>, pre.outcome, "")
    ELSE ainstruct_create(Instruction(pre.payload["description"]),
                          format, model_options, backend_exc, pre)

ainstruct(description, format, model_options, backend_exc) ==
    ainstruct_after_pre(format, model_options, backend_exc,
        CallSite(COMPONENT_PRE_CREATE,
                 [f \in {"component_type", "description"} |->
                     IF f = "description" THEN description ELSE "Instruction"]))

\* what the caller passes and how the backend behaves
CallFormats == {"None", "format-of-caller"}
CallOptions == {"None", "options-of-caller"}
BackendOutcomes == {"", "BackendError"}

Returns(op, run, format, model_options) ==
    /\ last' = [Observed(op, run.outcome) EXCEPT
                   !.trace = run.trace, !.backend_calls = run.backend_calls,
                   !.result = run.result,
                   !.update = [f \in {"format", "model_options"} |->
                                  IF f = "format" THEN format ELSE model_options]]
    /\ UNCHANGED <<plugin_manager, plugins_enabled, registry, session_tags,
                   scope_of, inside, reinits>>

Generate(format, model_options, backend_exc) ==
    Returns("generate_from_context_with_hooks",
           generate_from_context_with_hooks("action", format, model_options, backend_exc),
           format, model_options)

Aact(format, model_options, backend_exc) ==
    Returns("aact", aact("action", format, model_options, backend_exc),
           format, model_options)

Ainstruct(format, model_options, backend_exc) ==
    Returns("ainstruct", ainstruct("description", format, model_options, backend_exc),
           format, model_options)

CallItems == {"P4", "gen_block", "gen_opts", "gen_out", "succ_block", "exec_block",
              "hook_err"}

NextCall ==
    \/ \E item \in CallItems : Register(item, NoId)
    \/ Shutdown
    \/ \E format \in CallFormats, model_options \in CallOptions,
          backend_exc \in BackendOutcomes :
            \/ Generate(format, model_options, backend_exc)
            \/ Aact(format, model_options, backend_exc)
            \/ Ainstruct(format, model_options, backend_exc)

SpecCall == Init /\ [][NextCall]_vars

(***************************************************************************)
(* Copy-with-update on its own: a caller builds a payload and copies it    *)
(* with some of its fields named in the update.                            *)
(***************************************************************************)
CopyHookTypes == {SESSION_PRE_INIT, SESSION_POST_INIT, COMPONENT_POST_ERROR}
CopyRequestIds == {"", "req-1"}
\* update dicts: any set of the payload's fields, each given a new value
Updates(hook_type) ==
    {[f \in named |-> "new-" \o f] : named \in SUBSET PayloadFields(hook_type)}

ModelCopy(payload, update) ==
    /\ last' = [Observed("model_copy", "returned") EXCEPT
                   !.arg = payload, !.update = update,
                   !.payload = model_copy(payload, update)]
    /\ UNCHANGED <<plugin_manager, plugins_enabled, registry, session_tags,
                   scope_of, inside, reinits>>

NextCopy ==
    \E h \in CopyHookTypes, rid \in CopyRequestIds :
        \E update \in Updates(h) : ModelCopy(NewPayload(h, rid), update)

SpecCopy == Init /\ [][NextCopy]_vars

(***************************************************************************)
(* Properties.  What the declarations of the program promise, read off     *)
(* the catalogue and not off the registered adapters.                      *)
(***************************************************************************)
\* the handlers of the registry subscribed to a hook type, in registration order
Subscribed(hook_type) == SelectSeq(registry, LAMBDA p : hook_type \in p.hooks)

\* the priority a handler is due: that of the group it was registered through,
\* else that of its bundle, else the one its @hook declares
EffectivePriority(p) ==
    IF p.override # <<>> THEN p.override[1]
    ELSE IF p.name \in Functions THEN FunctionMeta(p.name).priority
    ELSE PluginMetaOf(p.name).priority

\* the mode the handler's @hook declares for the dispatched hook type
DeclaredMode(p, hook_type) ==
    IF p.name \in Functions THEN FunctionMeta(p.name).mode
    ELSE MethodMeta(p.name, hook_methods(p.name)[hook_type]).mode

Dispatched == last.op = "invoke_hook"
Invoked == 1..Len(last.fired)
Blocked(i) == ~last.returned[i].continue_processing
InvokedNames == {last.fired[i].name : i \in Invoked}

DistinctPriorities(hook_type) ==
    LET subs == Subscribed(hook_type)
    IN  \A i, j \in 1..Len(subs) :
            i # j => EffectivePriority(subs[i]) # EffectivePriority(subs[j])

\* C1: when the handlers subscribed to a hook type have pairwise distinct
\* effective priorities and none of them blocks, a dispatch invokes all of
\* them in strictly ascending priority order, whatever the registration order.
C1_AscendingPriorityOrder ==
    (/\ Dispatched
     /\ DistinctPriorities(last.hook_type)
     /\ \A i \in Invoked : ~Blocked(i))
    => /\ Len(last.fired) = Len(Subscribed(last.hook_type))
       /\ InvokedNames = RegisteredNames(Subscribed(last.hook_type))
       /\ \A i, j \in Invoked :
             i < j => EffectivePriority(last.fired[i]) < EffectivePriority(last.fired[j])

\* three handlers, one of them through a prioritised group, registered in an
\* order that is not the priority order, all invoked
C1_Witness ==
    /\ Dispatched
    /\ DistinctPriorities(last.hook_type)
    /\ Len(last.fired) = 3
    /\ \A i \in Invoked : ~Blocked(i)
    /\ \E i \in Invoked : last.fired[i].override # <<>>
    /\ LET subs == Subscribed(last.hook_type)
       IN  EffectivePriority(subs[1]) > EffectivePriority(subs[2])

\* C2: when a handler declared enforcing blocks, no subscribed handler of a
\* greater effective priority is invoked in that dispatch.
C2_EnforcingBlockHaltsChain ==
    Dispatched =>
        \A i \in Invoked :
            (DeclaredMode(last.fired[i], last.hook_type) = ENFORCE /\ Blocked(i))
            => \A j \in Invoked :
                  EffectivePriority(last.fired[j]) <= EffectivePriority(last.fired[i])

\* an enforcing handler blocked while a handler of greater priority was subscribed
C2_Witness ==
    /\ Dispatched
    /\ \E i \in Invoked :
          /\ DeclaredMode(last.fired[i], last.hook_type) = ENFORCE
          /\ Blocked(i)
          /\ LET subs == Subscribed(last.hook_type)
             IN  \E k \in 1..Len(subs) :
                    /\ EffectivePriority(subs[k]) > EffectivePriority(last.fired[i])
                    /\ subs[k].name \notin InvokedNames

C4_PermissiveBlockContinues ==
    (/\ Dispatched
     /\ \E i \in Invoked :
           DeclaredMode(last.fired[i], last.hook_type) = PERMISSIVE /\ Blocked(i)
     /\ \A i \in Invoked :
           DeclaredMode(last.fired[i], last.hook_type) \in {ENFORCE, FIRE_AND_FORGET}
           => ~Blocked(i))
    => /\ last.outcome = "returned"
       /\ ~last.result_is_none
       /\ last.continue_processing
       /\ InvokedNames = RegisteredNames(Subscribed(last.hook_type))

\* the payload as it stood after the i-th invoked handler: what the next
\* handler received or, after the last one, what invoke_hook returned
HasAfter(i) == i < Len(last.fired) \/ last.outcome = "returned"
After(i) == IF i < Len(last.fired) THEN last.seen[i + 1] ELSE last.payload

\* the i-th invoked handler returned a modified payload that changes field f
Proposes(i, f) ==
    /\ last.returned[i].continue_processing
    /\ last.returned[i].has_payload
    /\ last.returned[i].modified_payload[f] # last.seen[i][f]

HasPolicy(hook_type) == hook_type \in DOMAIN MELLEA_HOOK_PAYLOAD_POLICIES
Writable(hook_type) == MELLEA_HOOK_PAYLOAD_POLICIES[hook_type]
NonWritable(hook_type) == PayloadFields(hook_type) \ Writable(hook_type)

\* C5: on a hook type with a policy entry, a change a handler proposes to a
\* field outside the writable set (session_id, request_id and hook included)
\* is dropped without error: later handlers and the caller see the value the
\* dispatch started with, and the changes to writable fields proposed in the
\* same modified payload are accepted.
C5_NonWritableChangesDropped ==
    (Dispatched /\ HasPolicy(last.hook_type) /\ Invoked # {})
    => /\ \A i \in Invoked : \A f \in NonWritable(last.hook_type) :
             HasAfter(i) => After(i)[f] = last.seen[1][f]
       /\ \A f \in NonWritable(last.hook_type) \ {"hook", "request_id"} :
             last.seen[1][f] = last.arg[f]
       /\ \A i \in Invoked :
             (HasAfter(i) /\ \E g \in NonWritable(last.hook_type) : Proposes(i, g))
             => \A f \in Writable(last.hook_type) \cap PayloadFields(last.hook_type) :
                   Proposes(i, f) => After(i)[f] = last.returned[i].modified_payload[f]
       /\ (\A i \in Invoked : ~Blocked(i)) => last.outcome = "returned"

\* hook_d proposed changes to session_id, request_id, hook, context_type and to
\* two writable fields; the caller got back only the writable ones
C5_Witness ==
    /\ Dispatched
    /\ last.outcome = "returned"
    /\ HasPolicy(last.hook_type)
    /\ \E i \in Invoked :
          /\ \A g \in {"session_id", "request_id", "hook", "context_type"} : Proposes(i, g)
          /\ Proposes(i, "model_id")
    /\ last.payload["session_id"] = "sid-orig"
    /\ last.payload["request_id"] = "rid-orig"
    /\ last.payload["hook"] = SESSION_PRE_INIT
    /\ last.payload["context_type"] = "SimpleContext"
    /\ last.payload["model_id"] = "by_d"
    /\ last.payload["backend_name"] = "backend_d"

\* C6: on a hook type with a policy entry, a handler's change to a writable
\* field reaches every handler invoked after it, and the payload invoke_hook
\* returns carries, for each writable field, the last accepted write (the
\* caller's value when no handler wrote it).
C6_WritableChangesChain ==
    (Dispatched /\ HasPolicy(last.hook_type) /\ Invoked # {})
    => \A f \in Writable(last.hook_type) \cap PayloadFields(last.hook_type) :
          /\ last.seen[1][f] = last.arg[f]
          /\ \A i \in Invoked :
                HasAfter(i) =>
                    After(i)[f] = IF Proposes(i, f)
                                  THEN last.returned[i].modified_payload[f]
                                  ELSE last.seen[i][f]

\* two handlers wrote model_id one after the other: the second received the
\* first one's value and the caller received the second one's
C6_Witness ==
    /\ Dispatched
    /\ last.outcome = "returned"
    /\ Len(last.fired) >= 2
    /\ \E i, j \in Invoked :
          /\ i < j
          /\ Proposes(i, "model_id")
          /\ Proposes(j, "model_id")
          /\ last.seen[j]["model_id"] = last.returned[i].modified_payload["model_id"]
          /\ last.seen[j]["model_id"] # last.arg["model_id"]
          /\ last.payload["model_id"] = last.returned[j].modified_payload["model_id"]

\* C7: when the manager is not initialised, or no registered handler
\* subscribes to the hook type, invoke_hook returns (None, p) with p the very
\* object passed in, raises nothing, invokes no handler and leaves the
\* manager, the registry and the scope map as they were.
C7_NoOpDispatch ==
    [][(/\ last'.op = "invoke_hook"
        /\ \/ ~plugins_enabled
           \/ plugin_manager = None
           \/ Subscribed(last'.hook_type) = <<>>)
       => /\ last'.outcome = "returned"
          /\ last'.result_is_none
          /\ last'.payload = last'.arg
          /\ last'.payload["oid"] = "caller"
          /\ last'.fired = <<>>
          /\ UNCHANGED <<plugin_manager, plugins_enabled, registry, session_tags>>]_vars

\* a dispatch to a hook type nobody subscribes to, on a manager holding a
\* handler of another hook type
C7_Witness ==
    /\ Dispatched
    /\ plugin_manager # None
    /\ plugins_enabled
    /\ registry # <<>>
    /\ Subscribed(last.hook_type) = <<>>
    /\ last.result_is_none
    /\ last.payload = last.arg

(***************************************************************************)
(* Scopes                                                                  *)
(***************************************************************************)
\* the handlers a scope handle registers when it is entered
HandleNames(h) == {RegisterPairs(h)[i][1] : i \in 1..Len(RegisterPairs(h))}

\* the names of the handlers of a registry registered with a scope id
Under(reg, sid) == {reg[i].name : i \in {k \in 1..Len(reg) : reg[k].session_id = sid}}

\* the handle is open and its handlers are registered under its scope id
Registered(h) ==
    /\ scope_of[h] # NoId
    /\ HandleNames(h) \subseteq Under(registry, scope_of[h])

\* the handlers of a registry that are bound to a hook type and a scope id
Bound(reg, hook_type, sid) ==
    {reg[i].name : i \in {k \in 1..Len(reg) :
                            reg[k].session_id = sid /\ hook_type \in reg[k].hooks}}

\* a step in which the handle is entered successfully
EnterStep(h) == h \notin inside /\ h \in inside'

\* a step in which the entered handle is exited
ExitStep(h) == h \in inside /\ h \notin inside'

ManagerReplaced == last'.op \in {"shutdown_plugins", "initialize_plugins"}

\* C8: entering a scope handle registers its handlers; while the handle stays
\* open (the manager being neither shut down nor re-initialised) they stay
\* registered and every dispatch to a hook type they subscribe to invokes
\* them; its exit leaves none of them registered, and the handle can then be
\* entered again.
C8_ScopeHandleCycle ==
    [][\A h \in Handles :
          /\ EnterStep(h) => Registered(h)'
          /\ (Registered(h) /\ scope_of'[h] = scope_of[h] /\ ~ManagerReplaced)
             => /\ Registered(h)'
                /\ last'.op = "invoke_hook"
                   => Bound(registry, last'.hook_type, scope_of[h])
                         \subseteq {last'.fired[i].name : i \in 1..Len(last'.fired)}
          /\ ExitStep(h) => /\ Under(registry', scope_of[h]) = {}
                            /\ scope_of'[h] = NoId]_vars

\* C9: with two scopes open, one inside the other, a dispatch invokes the
\* handlers of both; closing a scope removes its own handlers only, so the
\* handlers of every other open scope (a handle's or a session's) stay
\* registered and keep being invoked.
C9_NestedScopes ==
    [][/\ (last'.op = "invoke_hook" /\ \A h \in Handles : Registered(h))
          => \A h \in Handles :
                Bound(registry, last'.hook_type, scope_of[h])
                   \subseteq {last'.fired[i].name : i \in 1..Len(last'.fired)}
       /\ \A h \in Handles :
             ExitStep(h) =>
                \A sid \in ScopeIds \ {scope_of[h]} :
                    Under(registry', sid) = Under(registry, sid)]_vars

\* C10: deregister_session_plugins(S) on an enabled manager leaves no handler
\* registered with S and leaves every handler registered globally or with
\* another scope id where it was.
C10_DeregisterRemovesOnlyScope ==
    [][\A sid \in SessionIds :
          (last'.op = "deregister_session_plugins" /\ plugins_enabled)
          => /\ Under(registry', sid) = {}
             /\ SelectSeq(registry', LAMBDA p : p.session_id # sid)
                   = SelectSeq(registry, LAMBDA p : p.session_id # sid)]_vars

\* C11: the exit of an entered scope handle, whether the body returned or
\* raised, leaves none of that scope's handlers registered, empties the
\* scope's entry of the scope map and clears the handle's scope id; an exit
\* call on a handle whose scope id is already cleared changes nothing.
C11_ExitDeregistersOnce ==
    [][/\ \A h \in Handles :
             ExitStep(h) => /\ last'.outcome \in BodyOutcomes
                            /\ Under(registry', scope_of[h]) = {}
                            /\ session_tags'[scope_of[h]] = {}
                            /\ scope_of'[h] = NoId
       /\ (last'.op = "exit" /\ last'.scope = NoId)
          => UNCHANGED <<plugin_manager, plugins_enabled, registry, session_tags,
                         scope_of>>]_vars

\* an exception left the with-block of a handle on an enabled manager: the
\* scope is gone while another handler is still registered
C11_Witness ==
    /\ last.op = "exit"
    /\ last.outcome = "ValueError"
    /\ last.scope \in Uuids
    /\ plugins_enabled
    /\ \A h \in Handles : scope_of[h] # last.scope
    /\ Under(registry, last.scope) = {}
    /\ session_tags[last.scope] = {}
    /\ registry # <<>>

\* C12: entering a scope handle whose scope id is set raises RuntimeError
\* and changes nothing: the handle keeps its scope id, the handlers of the
\* open scope stay registered, each exactly once, and the scope map keeps
\* them, so that the outer exit still deregisters them.
C12_ReentryFailsFast ==
    [][\A h \in Handles :
          (last'.op = "enter" /\ scope_of'[h] = last'.scope /\ scope_of[h] # NoId)
          => /\ last'.outcome = "RuntimeError"
             /\ UNCHANGED <<plugin_manager, plugins_enabled, registry, session_tags,
                            scope_of, inside>>
             /\ \A n \in Under(registry, scope_of[h]) :
                   /\ Cardinality({i \in 1..Len(registry') : registry'[i].name = n}) = 1
                   /\ n \in session_tags'[scope_of'[h]]]_vars

\* an entered handle, its handlers registered, was entered again
C12_Witness ==
    /\ last.op = "enter"
    /\ last.outcome = "RuntimeError"
    /\ \E h \in Handles :
          /\ scope_of[h] = last.scope
          /\ h \in inside
          /\ Registered(h)
          /\ HandleNames(h) \subseteq session_tags[scope_of[h]]

(***************************************************************************)
(* Priorities of bundles and groups                                        *)
(***************************************************************************)
\* the handler is a bundle whose @plugin decoration gives a priority,
\* registered outside any prioritised group
DeclaredBundle(p) ==
    /\ p.name \in Bundles
    /\ PluginPriorityArg(p.name) # <<>>
    /\ p.override = <<>>

\* the names of the handlers invoked before the i-th one
InvokedBefore(i) == {last.fired[j].name : j \in 1..(i - 1)}

UndeclaredBundle(p) ==
    /\ p.name \in Bundles
    /\ PluginPriorityArg(p.name) = <<>>
    /\ p.override = <<>>

\* the priority @hook declares on the method a bundle subscribes with
MethodPriority(p, hook_type) ==
    MethodMeta(p.name, hook_methods(p.name)[hook_type]).priority

\* C14: a bundle registered without a priority of its own, outside any
\* prioritised group, runs each handler method at the priority that
\* method's @hook declares: after every handler of a smaller priority
\* and before every handler of a greater priority.
C14_MethodPriorityWhenUndeclared ==
    Dispatched =>
        \A i \in Invoked :
            UndeclaredBundle(last.fired[i]) =>
                LET N == MethodPriority(last.fired[i], last.hook_type)
                IN  \A j \in Invoked :
                        /\ j < i => EffectivePriority(last.fired[j]) <= N
                        /\ j > i => N <= EffectivePriority(last.fired[j])

\* the non-group items a group holds directly, and the groups it holds
DirectItems(g) == {SetItems(g)[i] : i \in 1..Len(SetItems(g))} \ PluginSets
NestedSets(g) == {SetItems(g)[i] : i \in 1..Len(SetItems(g))} \cap PluginSets

\* a group and the groups nested in it, at any depth
RECURSIVE GroupsWithin(_)
GroupsWithin(g) == {g} \cup UNION {GroupsWithin(n) : n \in NestedSets(g)}

\* the priority an item declares for itself
OwnPriority(item) ==
    IF item \in Functions THEN FunctionMeta(item).priority
    ELSE PluginMetaOf(item).priority

\* the step is a successful register(g) of the group g
RegisterStep(g) ==
    /\ last'.op = "register"
    /\ last'.item = g
    /\ last'.outcome = "returned"

\* the records a step adds to the registry
Added == {registry'[i] : i \in (Len(registry) + 1)..Len(registry')}

DeclaredFireAndForget(i) ==
    DeclaredMode(last.fired[i], last.hook_type) = FIRE_AND_FORGET

\* the record the registry would hold had the function been declared
\* enforcing: the declared mode is all that differs
EnforcingTwin(p) ==
    [name |-> p.name,
     kind |-> "function",
     hooks |-> {FunctionMeta(p.name).hook_type},
     mode |-> _map_mode(ENFORCE),
     priority |-> PriorityOrOverride(p.override, FunctionMeta(p.name).priority),
     session_id |-> p.session_id,
     override |-> p.override]

C18_HookStampedForEveryHandler ==
    Dispatched =>
        \A i \in Invoked : last.seen[i]["hook"] = last.hook_type

\* C19: on every hook type, when a handler returns a modified payload with
\* another hook value, the handlers invoked after it and the payload
\* invoke_hook returns still carry the dispatched hook type.
C19_HookNotHandlerWritable ==
    Dispatched =>
        \A i \in Invoked :
            Proposes(i, "hook") =>
                /\ \A j \in Invoked : j > i => last.seen[j]["hook"] = last.hook_type
                /\ last.outcome = "returned" => last.payload["hook"] = last.hook_type

\* C20: on a hook type without a policy entry, every change a handler
\* proposes is rejected: the payload invoke_hook returns has the field
\* values of the stamped payload the first handler received.
C20_ObserveOnlyRejectsChanges ==
    (/\ Dispatched
     /\ ~HasPolicy(last.hook_type)
     /\ Invoked # {}
     /\ last.outcome = "returned")
    => \A f \in PayloadFields(last.hook_type) : last.payload[f] = last.seen[1][f]

(***************************************************************************)
(* Handlers of equal priority                                              *)
(***************************************************************************)
\* the hook types an item's decorations subscribe it to
DeclaredHooks(item) ==
    IF item \in Functions THEN {FunctionMeta(item).hook_type}
    ELSE {MethodMeta(item, BundleMethods(item)[k]).hook_type :
             k \in 1..Len(BundleMethods(item))}

\* the registered handlers whose decorations subscribe them to hook_type
DeclaredSubscribers(hook_type) ==
    {registry[k] : k \in {n \in 1..Len(registry) :
                             hook_type \in DeclaredHooks(registry[n].name)}}

\* how many times a dispatch invoked the handler of that name
TimesInvoked(name) == Cardinality({i \in Invoked : last.fired[i].name = name})

\* the handler shares its priority with another subscriber of hook_type
HasEqualPeer(p, hook_type) ==
    \E q \in DeclaredSubscribers(hook_type) :
        q.name # p.name /\ EffectivePriority(q) = EffectivePriority(p)

\* C22: when no handler blocks, every subscribed handler that shares its
\* priority with another subscribed handler is invoked exactly once in the
\* dispatch.
C22_EqualPriorityAllOnce ==
    (/\ Dispatched
     /\ plugins_enabled
     /\ \A i \in Invoked : ~Blocked(i))
    => \A p \in DeclaredSubscribers(last.hook_type) :
          HasEqualPeer(p, last.hook_type) => TimesInvoked(p.name) = 1

\* hook_d and the bundle P2, both at priority 50, each ran once, next to
\* a handler of another priority
C22_Witness ==
    /\ Dispatched
    /\ Len(last.fired) = 3
    /\ \A i \in Invoked : ~Blocked(i)
    /\ \E i, j \in Invoked :
          /\ i # j
          /\ EffectivePriority(last.fired[i]) = EffectivePriority(last.fired[j])
          /\ TimesInvoked(last.fired[i].name) = 1
          /\ TimesInvoked(last.fired[j].name) = 1

(***************************************************************************)
(* Items of unrecognised shape                                             *)
(***************************************************************************)
\* C23: register() of an item that is neither a @hook function, nor an
\* instance of a @plugin class, nor a Plugin raises TypeError there and
\* then and registers nothing, and no dispatch ever invokes such an item.
C23_UnrecognisedShapeRejected ==
    /\ [](/\ \A k \in 1..Len(registry) : registry[k].name \notin Junk
          /\ \A i \in Invoked : last.fired[i].name \notin Junk)
    /\ [][(last'.op = "register" /\ last'.item \in Junk)
          => /\ last'.outcome = "TypeError"
             /\ registry' = registry
             /\ session_tags' = session_tags]_vars

\* register(junk) raised TypeError on a manager that holds handlers
C23_Witness ==
    /\ last.op = "register"
    /\ last.item \in Junk
    /\ last.outcome = "TypeError"
    /\ registry # <<>>

(***************************************************************************)
(* Shutdown                                                                *)
(***************************************************************************)
\* C24: shutdown_plugins(), from any state, leaves has_plugins() false,
\* the manager reference None and the scope map empty; and as long as
\* nothing has been registered since, every dispatch returns (None, p)
\* with p the payload passed in and invokes no handler.
C24_ShutdownClearsAll ==
    [][/\ last'.op = "shutdown_plugins"
          => /\ ~plugins_enabled'
             /\ plugin_manager' = None
             /\ \A s \in ScopeIds : session_tags'[s] = {}
             /\ registry' = <<>>
       /\ (last'.op = "invoke_hook" /\ registry = <<>>)
          => /\ last'.outcome = "returned"
             /\ last'.result_is_none
             /\ last'.payload = last'.arg
             /\ last'.fired = <<>>]_vars

\* shutdown was called while a scope handle was open and handlers were
\* registered; the dispatch that followed was a no-op
C24_Witness ==
    /\ last.op = "invoke_hook"
    /\ plugin_manager = None
    /\ ~plugins_enabled
    /\ \E h \in Handles : scope_of[h] # NoId /\ h \in inside
    /\ last.result_is_none
    /\ last.fired = <<>>

(***************************************************************************)
(* Modes declared on bundle methods                                        *)
(***************************************************************************)
\* C26: the mode a handler's @hook declares decides what its block does,
\* for bundle methods as for functions: the block of a handler declared
\* permissive neither ends the chain nor makes invoke_hook raise on its
\* account, the block of a handler declared enforcing does both.
C26_DeclaredModeGoverns ==
    Dispatched =>
        \A i \in Invoked :
            Blocked(i) =>
                /\ DeclaredMode(last.fired[i], last.hook_type) = PERMISSIVE
                   => /\ ~(/\ last.outcome = "PluginViolationError"
                           /\ last.error.plugin_name = last.fired[i].name)
                      /\ i = Len(last.fired)
                         => Len(last.fired) = Len(Subscribed(last.hook_type))
                /\ DeclaredMode(last.fired[i], last.hook_type) = ENFORCE
                   => /\ i = Len(last.fired)
                      /\ last.outcome = "PluginViolationError"
                      /\ last.error.plugin_name = last.fired[i].name

(***************************************************************************)
(* Payload objects are not changed in place                                *)
(***************************************************************************)
\* the payload objects a dispatch let anyone see: what each handler
\* received and returned, and what invoke_hook gave back
PayloadsInPlay ==
    {last.seen[i] : i \in Invoked}
        \cup {last.returned[i].modified_payload :
                 i \in {n \in Invoked : last.returned[n].has_payload}}
        \cup (IF last.outcome = "returned" THEN {last.payload} ELSE {})

\* C30: a dispatch leaves the payload object the caller passed in as it
\* was: wherever that very object shows up during or after the dispatch
\* it has the field values the caller gave it, and whatever carries a
\* stamped or handler-changed value is another object.
C30_CallerPayloadNeverMutated ==
    Dispatched =>
        /\ last.arg["oid"] = "caller"
        /\ \A p \in PayloadsInPlay : p["oid"] = "caller" => p = last.arg
        /\ \A p \in PayloadsInPlay : p # last.arg => p["oid"] # "caller"

\* the caller's payload came with a hook value of its own and no request
\* id; it was stamped, a handler changed model_id, and what invoke_hook
\* returned is another object with other values
C30_Witness ==
    /\ Dispatched
    /\ last.outcome = "returned"
    /\ Invoked # {}
    /\ last.arg["hook"] = "caller-hook"
    /\ last.arg["request_id"] = ""
    /\ last.seen[1]["hook"] = last.hook_type
    /\ last.seen[1]["request_id"] # ""
    /\ \E i \in Invoked : Proposes(i, "model_id")
    /\ last.payload["model_id"] # last.arg["model_id"]
    /\ last.payload["oid"] # "caller"

(***************************************************************************)
(* Handlers that return nothing                                            *)
(***************************************************************************)
\* the i-th invoked handler returned None, or a result with
\* continue_processing=True and no modified payload
ReturnedNothing(i) ==
    \/ last.returned[i].is_none
    \/ /\ last.returned[i].continue_processing
       /\ ~last.returned[i].has_payload
       /\ last.returned[i].raised = ""

\* C21: a handler that returns None, or a result with
\* continue_processing=True and no modified payload, changes nothing,
\* whatever its mode: what the next handler receives, or invoke_hook
\* returns if it was the last, has the field values the handler received,
\* and the chain goes on past it.
C21_ReturningNothingIsNoOp ==
    Dispatched =>
        \A i \in Invoked :
            ReturnedNothing(i) =>
                /\ i = Len(last.fired)
                   => /\ last.outcome = "returned"
                      /\ Len(last.fired) = Len(Subscribed(last.hook_type))
                /\ \A f \in PayloadFields(last.hook_type) : After(i)[f] = last.seen[i][f]

\* after a handler that changed model_id, a permissive function returned
\* PluginResult(continue_processing=True) and a bundle method returned
\* None; invoke_hook returned the changed value
C21_Witness ==
    /\ Dispatched
    /\ last.outcome = "returned"
    /\ Len(last.fired) = 3
    /\ Proposes(1, "model_id")
    /\ ~last.returned[2].is_none /\ ReturnedNothing(2)
    /\ last.fired[2].mode = PERMISSIVE
    /\ last.returned[3].is_none
    /\ last.fired[3].mode = ENFORCE
    /\ last.payload["model_id"] = last.returned[1].modified_payload["model_id"]
    /\ last.payload["model_id"] # last.arg["model_id"]

(***************************************************************************)
(* Handlers registered for a session                                       *)
(***************************************************************************)
\* C25: a handler registered with session_id S is invoked only by
\* dispatches made for session S, not by a dispatch for another session
\* id nor by one without session id.
C25_SessionHandlersFireInSessionOnly ==
    Dispatched =>
        \A i \in Invoked :
            last.fired[i].session_id \in SessionIds
            => last.fired[i].session_id = last.scope

(***************************************************************************)
(* Bundles with several methods on one hook type                           *)
(***************************************************************************)
\* the @hook-tagged methods of a bundle that subscribe to hook_type
TaggedMethods(inst, hook_type) ==
    {BundleMethods(inst)[k] :
        k \in {n \in 1..Len(BundleMethods(inst)) :
                  MethodMeta(inst, BundleMethods(inst)[n]).hook_type = hook_type}}

\* the (plugin, callable) pairs a dispatch called
Called == {last.called[c] : c \in 1..Len(last.called)}

\* C27: once a bundle is registered, a dispatch that runs to its end
\* invokes every @hook-tagged method of the bundle that subscribes to the
\* dispatched hook type, also when several methods of the bundle
\* subscribe to it.
C27_EveryTaggedMethodInvoked ==
    (/\ Dispatched
     /\ plugins_enabled
     /\ last.outcome = "returned"
     /\ \A i \in Invoked : ~Blocked(i))
    => \A k \in 1..Len(registry) :
          registry[k].name \in Bundles
          => \A m \in TaggedMethods(registry[k].name, last.hook_type) :
                <<registry[k].name, m>> \in Called

(***************************************************************************)
(* Handlers that raise                                                     *)
(***************************************************************************)
\* what the body of the i-th handler of the last dispatch does with the
\* payload it was given
BodyResult(i) ==
    IF last.fired[i].kind = "function"
    THEN FunctionBody(last.fired[i].name, last.seen[i])
    ELSE MethodBody(last.fired[i].name, last.called[i][2], last.seen[i])

\* the body of the i-th handler of the last dispatch raised an exception
RaisedAt(i) == BodyResult(i).raised # ""

\* C28: an exception a handler raises propagates out of invoke_hook to the
\* caller: the caller observes that exception and no result, the handler
\* was invoked once, and no later handler of the dispatch was invoked.
C28_HandlerExceptionPropagates ==
    Dispatched
    => \A i \in Invoked :
          RaisedAt(i)
          => /\ last.outcome = BodyResult(i).raised
             /\ last.result_is_none
             /\ last.error = NoError
             /\ TimesInvoked(last.fired[i].name) = 1
             /\ i = Len(last.fired)

\* a handler ran, the next one raised, and handlers of lower precedence
\* that subscribe to the hook type were left uninvoked
C28_Witness ==
    /\ Dispatched
    /\ \E i \in Invoked :
          /\ RaisedAt(i)
          /\ i > 1
          /\ BodyResult(i).raised = "RuntimeError"
          /\ last.outcome = "RuntimeError"
    /\ \E k \in 1..Len(registry) :
          /\ last.hook_type \in registry[k].hooks
          /\ registry[k].name \notin InvokedNames

(***************************************************************************)
(* The component_post_error dispatch of a failing aact                     *)
(***************************************************************************)
\* C29: when execution inside aact fails with exception E, the caller of
\* aact observes E itself, whatever the component_post_error handlers
\* return: the secondary dispatch never raises into the failure path.
C29_AactFailureObservedAsIs ==
    last.op = "aact" => last.outcome = last.body_exc

DeregisterStep(sid) ==
    /\ last'.op = "deregister_session_plugins"
    /\ last'.scope = sid
    /\ last' # last

\* C33: deregister_session_plugins called with a scope id that has no
\* handlers recorded (never registered, or already closed) raises nothing
\* and leaves the registry, the scope map, the enablement flag and the
\* manager as they were: it does not create the manager.
C33_DeregisterUnknownIsNoOp ==
    [][\A sid \in ScopeIds :
          (DeregisterStep(sid) /\ session_tags[sid] = {})
          => /\ last'.outcome = "returned"
             /\ UNCHANGED <<registry, session_tags, plugins_enabled, plugin_manager>>]_vars

\* deregister_session_plugins was called for a scope without handlers,
\* once with no manager at all
C33_Witness ==
    /\ last.op = "deregister_session_plugins"
    /\ last.scope \in SessionIds
    /\ session_tags[last.scope] = {}
    /\ plugin_manager = None
    /\ ~plugins_enabled

(***************************************************************************)
(* Request-identifier stamping                                             *)
(***************************************************************************)
\* the request id the handlers and the caller of a dispatch should see
ExpectedRequestId ==
    IF last.arg["request_id"] = "" THEN "req-arg" ELSE last.arg["request_id"]

\* C34: when handlers fire, a payload whose request_id is empty is given
\* the request_id argument of the dispatch and a payload that carries a
\* non-empty request_id keeps it, both in what every handler sees and in
\* the returned payload, even if a handler proposes another request_id.
C34_RequestIdStamped ==
    (Dispatched /\ Invoked # {})
    => /\ \A i \in Invoked : last.seen[i]["request_id"] = ExpectedRequestId
       /\ last.outcome = "returned" => last.payload["request_id"] = ExpectedRequestId

(***************************************************************************)
(* An entry that fails while registering                                   *)
(***************************************************************************)
\* the exceptions register() raises
RegistrationErrors == {"TypeError", "ValueError"}

\* C35: an entry of a scope handle that fails while registering its items
\* has no lasting effect: no handler registered by that entry stays
\* registered and the handle is not left marked as open.
C35_FailedEnterHasNoEffect ==
    [][\A h \in Handles :
          (/\ last'.op = "enter"
           /\ last'.outcome \in RegistrationErrors
           /\ scope_of'[h] # scope_of[h] \/ registry' # registry)
          => /\ registry' = registry
             /\ session_tags' = session_tags
             /\ scope_of'[h] = NoId]_vars

(***************************************************************************)
(* The scope map against the registry                                      *)
(***************************************************************************)
\* C36: after any sequence of register, scope enter and exit,
\* deregister_session_plugins, initialize_plugins and shutdown_plugins,
\* every handler name recorded in the scope map under a scope id is a
\* handler registered under that scope id in the current manager (so that
\* closing a scope never unregisters a handler of another owner).
C36_ScopeMapMatchesRegistry ==
    \A sid \in ScopeIds : session_tags[sid] \subseteq Under(registry, sid)

(***************************************************************************)
(* Tasks sharing a scope handle.  __aenter__ and __aexit__ call __enter__  *)
(* and __exit__ with no await of their own, so each entry and each exit of *)
(* a cooperative task is one step, and the tasks' interleavings are the    *)
(* interleavings of the Enter and Exit steps.                              *)
(***************************************************************************)
\* the scope ids under which handlers of the handle are registered
OpenScopes(h) == {sid \in Uuids : Under(registry, sid) \cap HandleNames(h) # {}}

TimesRegistered(name) ==
    Cardinality({i \in 1..Len(registry) : registry[i].name = name})

\* C40: at any point of any interleaving of tasks that enter and exit the
\* same scope handle, the handle has at most one open scope id and its
\* handlers are registered at most once; an entry attempted while the
\* handle is held open fails with RuntimeError and changes nothing, and
\* the holder's later exit still removes the handlers.
C40_OneScopePerHandle ==
    /\ [](\A h \in Handles :
             /\ OpenScopes(h) \subseteq {scope_of[h]}
             /\ \A n \in HandleNames(h) : TimesRegistered(n) <= 1)
    /\ [][\A h \in Handles :
             /\ (h \in inside /\ last'.op = "enter" /\ last'.scope = scope_of[h])
                => /\ last'.outcome = "RuntimeError"
                   /\ UNCHANGED <<registry, session_tags, scope_of, inside>>
             /\ (h \in inside /\ scope_of'[h] # scope_of[h])
                => /\ scope_of'[h] = NoId
                   /\ h \notin inside'
                   /\ Under(registry', scope_of[h]) = {}]_vars

\* with both handles held open and their handlers registered, another
\* entry of one of them was refused
C40_Witness ==
    /\ last.op = "enter"
    /\ last.outcome = "RuntimeError"
    /\ \A h \in Handles : h \in inside /\ Registered(h)
    /\ \A h \in Handles : OpenScopes(h) = {scope_of[h]}

(***************************************************************************)
(* Claims about the call sites (SpecCall)                                  *)
(***************************************************************************)
\* the hook types of the dispatches of a run, in order
HookTypesOf(trace) == [i \in 1..Len(trace) |-> trace[i].hook_type]

\* how often a hook type was dispatched in a run
TimesDispatched(trace, hook_type) ==
    Cardinality({i \in 1..Len(trace) : trace[i].hook_type = hook_type})

ComponentHookTypes ==
    {COMPONENT_PRE_CREATE, COMPONENT_POST_CREATE, COMPONENT_PRE_EXECUTE,
     COMPONENT_POST_SUCCESS, COMPONENT_POST_ERROR}

\* C32: an ainstruct call (no sampling strategy) made with plugins enabled
\* that returns, so that no handler blocked and nothing raised, dispatched
\* the component hooks once each in the order component_pre_create,
\* component_post_create, component_pre_execute, component_post_success, and
\* dispatched generation_pre_call once before generation_post_call once.
C32_AinstructHookOrder ==
    (last.op = "ainstruct" /\ last.outcome = "returned" /\ last.trace # <<>>) =>
        /\ SelectSeq(HookTypesOf(last.trace), LAMBDA h : h \in ComponentHookTypes)
               = <<COMPONENT_PRE_CREATE, COMPONENT_POST_CREATE,
                   COMPONENT_PRE_EXECUTE, COMPONENT_POST_SUCCESS>>
        /\ SelectSeq(HookTypesOf(last.trace), LAMBDA h : h \notin ComponentHookTypes)
               = <<GENERATION_PRE_CALL, GENERATION_POST_CALL>>

\* an ainstruct call returned and a registered handler ran at each of its
\* six dispatches
C32_Witness ==
    /\ last.op = "ainstruct" /\ last.outcome = "returned"
    /\ Len(last.trace) = 6
    /\ \A i \in 1..Len(last.trace) : last.trace[i].fired # <<>>

C37_WitnessReplaced ==
    /\ last.op = "generate_from_context_with_hooks"
    /\ last.trace # <<>>
    /\ last.trace[1].outcome = "returned"
    /\ last.update["model_options"] # "options-by-plugin"
    /\ last.backend_calls # <<>>
    /\ last.backend_calls[1].model_options = "options-by-plugin"
    /\ last.backend_calls[1].format = "format-by-plugin"

\* C38: the output a call of generate_from_context_with_hooks returns is the
\* model_output of the payload its generation_post_call dispatch returned.
C38_PostCallOutputReturned ==
    (/\ last.op = "generate_from_context_with_hooks"
     /\ last.outcome = "returned"
     /\ last.trace # <<>>) =>
        /\ last.trace[Len(last.trace)].hook_type = GENERATION_POST_CALL
        /\ last.result = last.trace[Len(last.trace)].payload["model_output"]

\* C39: an aact call that got past component_pre_execute dispatched exactly
\* one of component_post_success and component_post_error: post_success when
\* it returned, post_error when it raised, never both.
C39_SuccessXorError ==
    (/\ last.op = "aact"
     /\ last.trace # <<>>
     /\ last.trace[1].outcome = "returned") =>
        /\ TimesDispatched(last.trace, COMPONENT_POST_SUCCESS)
              + TimesDispatched(last.trace, COMPONENT_POST_ERROR) = 1
        /\ last.outcome = "returned" <=>
              TimesDispatched(last.trace, COMPONENT_POST_SUCCESS) = 1

====
